---- MODULE Spec2Model ----
(***************************************************************************)
(* HomeCatalog: attribute paths (traverse_path/by_path.py), the operator   *)
(* registry (traverse_path/compare.py), the searchable collection          *)
(* (traverse_path/pydantic.py) and the validated records (models.py).      *)
(*                                                                         *)
(* Python strings are sequences of one-character strings, so that split,   *)
(* join, upper/lower and the predicate-key pattern are computed.  Python   *)
(* values are records tagged with the name of their type.                  *)
(***************************************************************************)
EXTENDS Integers, Sequences, FiniteSets, TLC

VARIABLES
    attrPath,   \* an AttrPath instance: its value and its _parts deque
    ret,        \* the last call on a path and what it returned or raised
    root,       \* SearchBase.root, the wrapped list
    last,       \* the last call on the collection and what it returned or raised
    opRet,      \* the last operator lookup and its outcome
    thing       \* the last record construction and its outcome

vars == <<attrPath, ret, root, last, opRet, thing>>

\* ---------------------------------------------------------------- bounds
MaxDepth == 3
MaxLen == 2
MaxKwargs == 2
MaxOther == 1
MaxNames == 2

\* --------------------------------------------------------------- strings
s_id == <<"i", "d">>
s_value == <<"v", "a", "l", "u", "e">>
s_year_published == <<"y", "e", "a", "r", "_", "p", "u", "b", "l", "i", "s", "h", "e", "d">>
s_description == <<"d", "e", "s", "c", "r", "i", "p", "t", "i", "o", "n">>

LowerCase == <<"a", "b", "c", "d", "e", "f", "g", "h", "i", "j", "k", "l", "m",
               "n", "o", "p", "q", "r", "s", "t", "u", "v", "w", "x", "y", "z">>
UpperCase == <<"A", "B", "C", "D", "E", "F", "G", "H", "I", "J", "K", "L", "M",
               "N", "O", "P", "Q", "R", "S", "T", "U", "V", "W", "X", "Y", "Z">>

IndexIn(c, alphabet) ==
    IF \E i \in 1..Len(alphabet) : alphabet[i] = c
    THEN CHOOSE i \in 1..Len(alphabet) : alphabet[i] = c
    ELSE 0

\* the upper-case letter of every lower-case letter, and the converse
UpperOf == [c \in {LowerCase[i] : i \in 1..Len(LowerCase)} |-> UpperCase[IndexIn(c, LowerCase)]]
LowerOf == [c \in {UpperCase[i] : i \in 1..Len(UpperCase)} |-> LowerCase[IndexIn(c, UpperCase)]]

\* str.upper() and str.lower(), character by character
UpperChar(c) == IF c \in DOMAIN UpperOf THEN UpperOf[c] ELSE c
LowerChar(c) == IF c \in DOMAIN LowerOf THEN LowerOf[c] ELSE c
Upper(s) == [i \in 1..Len(s) |-> UpperChar(s[i])]
Lower(s) == [i \in 1..Len(s) |-> LowerChar(s[i])]

\* the least and the greatest member of a set of positions, 0 when it is empty
Least(S) == IF S = {} THEN 0 ELSE CHOOSE i \in S : \A j \in S : i <= j
Greatest(S) == IF S = {} THEN 0 ELSE CHOOSE i \in S : \A j \in S : j <= i

\* the least index at which sep occurs in s, 0 when it does not
FindSep(s, sep) ==
    Least({i \in 1..(Len(s) - Len(sep) + 1) : SubSeq(s, i, i + Len(sep) - 1) = sep})

RECURSIVE Split(_, _)
\* s cut at the occurrence of sep at i, the rest split in turn
SplitAt(s, sep, i) ==
    IF i = 0 THEN <<s>>
    ELSE <<SubSeq(s, 1, i - 1)>> \o Split(SubSeq(s, i + Len(sep), Len(s)), sep)

\* str.split(sep): left to right, occurrences do not overlap
Split(s, sep) == SplitAt(s, sep, FindSep(s, sep))

\* seq[-1]
Last(seq) == seq[Len(seq)]

RECURSIVE Join(_, _)
\* sep.join(parts)
Join(parts, sep) ==
    IF parts = <<>> THEN <<>>
    ELSE IF Len(parts) = 1 THEN parts[1]
    ELSE parts[1] \o sep \o Join(Tail(parts), sep)

\* ---------------------------------------------------------------- values
PyNone == [type |-> "NoneType"]
PyInt(n) == [type |-> "int", i |-> n]
PyStr(s) == [type |-> "str", s |-> s]
PyList(xs) == [type |-> "list", items |-> xs]
PyObj(t, a) == [type |-> t, attrs |-> a]
MISSING == [type |-> "Missing"]

Return(v) == [exc |-> "none", val |-> v]
Raise(e, m) == [exc |-> e, msg |-> m]

\* getattr(current, name) succeeds: the names of the model are field names,
\* which only instances of the record classes carry
HasAttr(current, name) == "attrs" \in DOMAIN current /\ name \in DOMAIN current.attrs
GetAttr(current, name) == current.attrs[name]

\* -------------------------------------------------------------- AttrPath
separator == <<"_", "_">>

path_as_parts(path) == Split(path, separator)

\* AttrPath(value=value): _parts = deque(value.split(_separator))
AttrPath(value) == [type |-> "AttrPath", value |-> value, parts |-> Split(value, separator)]

\* AttrPath.str_to_path
str_to_path(value) == IF value.type = "AttrPath" THEN value ELSE AttrPath(value.s)

\* deque.rotate(n): n steps to the right, to the left when n < 0
rotate(d, n) ==
    IF Len(d) = 0 THEN d
    ELSE SubSeq(d, Len(d) - (n % Len(d)) + 1, Len(d)) \o SubSeq(d, 1, Len(d) - (n % Len(d)))

render(p) == Join(p.parts, separator)

\* str(path) as formatted into a message
PathStr(path) == IF path.type = "AttrPath" THEN render(path) ELSE path.s

\* deque.popleft: the outcome and the deque left
deque_popleft(d) ==
    IF Len(d) = 0
    THEN [out |-> Raise("IndexError", "pop from an empty deque"), parts |-> d]
    ELSE [out |-> Return(PyStr(Head(d))), parts |-> Tail(d)]

\* AttrPath.popleft: the outcome and the parts left
popleft(p) == deque_popleft(p.parts)

\* the last step of AttrPath.pop, not reached when popleft raised
rotate_back(popped, index) ==
    IF popped.out.exc # "none" THEN popped
    ELSE [out |-> popped.out, parts |-> rotate(popped.parts, index)]

\* AttrPath.pop(index): rotate(-index), popleft(), rotate(index)
pop(p, index) == rotate_back(deque_popleft(rotate(p.parts, -index)), index)

\* ---------------------------------------------------------- getattr_path
RECURSIVE Walk(_, _, _, _, _, _)
\* the loop of getattr_path over the names still to fetch; looked is the
\* sequence of names fetched so far
Walk(obj, path, default, current, names, looked) ==
    IF names = <<>> THEN [out |-> Return(current), looked |-> looked]
    ELSE LET name == Head(names)
             seen == Append(looked, name)
         IN IF ~HasAttr(current, name)
            THEN IF default = MISSING
                 THEN [out |-> Raise("AttributeError",
                                     [type |-> obj.type, path |-> PathStr(path),
                                      since |-> [type |-> current.type, name |-> name]]),
                       looked |-> seen]
                 ELSE [out |-> Return(default), looked |-> seen]
            ELSE IF GetAttr(current, name) = PyNone
                 THEN [out |-> Return(PyNone), looked |-> seen]
                 ELSE Walk(obj, path, default, GetAttr(current, name), Tail(names), seen)

\* getattr_path that drops the default on the way to the loop
getattr_path_strict(obj, path, default) ==
    IF path = PyStr(<<>>) THEN [out |-> Return(obj), looked |-> <<>>]
    ELSE Walk(obj, path, MISSING, obj, str_to_path(path).parts, <<>>)

getattr_path(obj, path, default) ==
    IF path = PyStr(<<>>) THEN [out |-> Return(obj), looked |-> <<>>]
    ELSE Walk(obj, path, default, obj, str_to_path(path).parts, <<>>)

\* ------------------------------------------------------------- Operators
Digits == <<"0", "1", "2", "3", "4", "5", "6", "7", "8", "9">>

\* the code point of a character of the model's alphabet
Ord(c) ==
    IF IndexIn(c, UpperCase) > 0 THEN 64 + IndexIn(c, UpperCase)
    ELSE IF IndexIn(c, LowerCase) > 0 THEN 96 + IndexIn(c, LowerCase)
    ELSE IF IndexIn(c, Digits) > 0 THEN 47 + IndexIn(c, Digits)
    ELSE IF c = "_" THEN 95
    ELSE 46

\* a < b on strings: by code point, a proper prefix is smaller
StrLess(a, b) ==
    \E i \in 1..(Len(b)) :
        /\ i <= Len(a) + 1
        /\ SubSeq(a, 1, i - 1) = SubSeq(b, 1, i - 1)
        /\ (i = Len(a) + 1 \/ Ord(a[i]) < Ord(b[i]))

\* needle in hay, on strings
Contains(hay, needle) ==
    \E i \in 1..(Len(hay) - Len(needle) + 1) : SubSeq(hay, i, i + Len(needle) - 1) = needle

StartsWith(s, prefix) == Len(prefix) <= Len(s) /\ SubSeq(s, 1, Len(prefix)) = prefix
EndsWith(s, suffix) ==
    Len(suffix) <= Len(s) /\ SubSeq(s, Len(s) - Len(suffix) + 1, Len(s)) = suffix

\* value < rhs is defined: both numbers or both strings (a list is only
\* ever a right-hand side here)
Ordered(value, rhs) == value.type = rhs.type /\ value.type \in {"int", "str"}
Less(value, rhs) == IF value.type = "int" THEN value.i < rhs.i ELSE StrLess(value.s, rhs.s)

\* x in container
Member(x, container) ==
    IF container.type = "str"
    THEN IF x.type = "str" THEN Return(Contains(container.s, x.s))
         ELSE Raise("TypeError", "'in <string>' requires string as left operand")
    ELSE IF container.type = "list"
    THEN Return(\E i \in 1..Len(container.items) : container.items[i] = x)
    ELSE IF container.type \in {"NoneType", "int"}
    THEN Raise("TypeError", "argument is not iterable")
    ELSE Return(FALSE)  \* a record instance iterates over (name, value) pairs

NoLower == Raise("AttributeError", "object has no attribute 'lower'")

equals(value, rhs) == Return(value = rhs)
not_equal(value, rhs) == Return(value # rhs)
greater_than(value, rhs) ==
    IF Ordered(value, rhs) THEN Return(Less(rhs, value))
    ELSE Raise("TypeError", "'>' not supported")
greater_than_or_equal(value, rhs) ==
    IF Ordered(value, rhs) THEN Return(~Less(value, rhs))
    ELSE Raise("TypeError", "'>=' not supported")
less_than(value, rhs) ==
    IF Ordered(value, rhs) THEN Return(Less(value, rhs))
    ELSE Raise("TypeError", "'<' not supported")
less_than_or_equal_to(value, rhs) ==
    IF Ordered(value, rhs) THEN Return(~Less(rhs, value))
    ELSE Raise("TypeError", "'<=' not supported")
in_(value, rhs) == Member(value, rhs)
contains(value, rhs) == Member(rhs, value)
icontains(value, rhs) ==
    IF rhs.type = "str" /\ value.type = "str"
    THEN Return(Contains(Lower(value.s), Lower(rhs.s)))
    ELSE NoLower
startswith(value, rhs) ==
    IF value.type # "str" THEN Raise("AttributeError", "object has no attribute 'startswith'")
    ELSE IF rhs.type # "str" THEN Raise("TypeError", "startswith first arg must be str")
    ELSE Return(StartsWith(value.s, rhs.s))
istartswith(value, rhs) ==
    IF value.type = "str" /\ rhs.type = "str"
    THEN Return(StartsWith(Lower(value.s), Lower(rhs.s)))
    ELSE NoLower
endswith(value, rhs) ==
    IF value.type # "str" THEN Raise("AttributeError", "object has no attribute 'endswith'")
    ELSE IF rhs.type # "str" THEN Raise("TypeError", "endswith first arg must be str")
    ELSE Return(EndsWith(value.s, rhs.s))
iendswith(value, rhs) ==
    IF value.type = "str" /\ rhs.type = "str"
    THEN Return(EndsWith(Lower(value.s), Lower(rhs.s)))
    ELSE NoLower
iequal(value, rhs) ==
    IF value.type = "str" /\ rhs.type = "str"
    THEN Return(Lower(value.s) = Lower(rhs.s))
    ELSE NoLower

\* the members of the enum Operators, by name, in definition order
EQ == <<"E", "Q">>
NE == <<"N", "E">>
GT == <<"G", "T">>
GE == <<"G", "E">>
LT == <<"L", "T">>
LE == <<"L", "E">>
IN_ == <<"I", "N">>  \* IN is a keyword
CONTAINS == <<"C", "O", "N", "T", "A", "I", "N", "S">>
ICONTAINS == <<"I">> \o CONTAINS
STARTSWITH == <<"S", "T", "A", "R", "T", "S", "W", "I", "T", "H">>
ISTARTSWITH == <<"I">> \o STARTSWITH
ENDSWITH == <<"E", "N", "D", "S", "W", "I", "T", "H">>
IENDSWITH == <<"I">> \o ENDSWITH
IEQUAL == <<"I", "E", "Q", "U", "A", "L">>

Operators == <<EQ, NE, GT, GE, LT, LE, IN_, CONTAINS, ICONTAINS, STARTSWITH,
               ISTARTSWITH, ENDSWITH, IENDSWITH, IEQUAL>>

Operator(name) == [type |-> "Operators", name |-> name]
OperatorNames == {Operators[i] : i \in 1..Len(Operators)}
IsOperatorName(name) == name \in OperatorNames

\* Operators.evaluate: self.value(value, rhs)
evaluate(operator, value, rhs) ==
    CASE operator.name = EQ -> equals(value, rhs)
      [] operator.name = NE -> not_equal(value, rhs)
      [] operator.name = GT -> greater_than(value, rhs)
      [] operator.name = GE -> greater_than_or_equal(value, rhs)
      [] operator.name = LT -> less_than(value, rhs)
      [] operator.name = LE -> less_than_or_equal_to(value, rhs)
      [] operator.name = IN_ -> in_(value, rhs)
      [] operator.name = CONTAINS -> contains(value, rhs)
      [] operator.name = ICONTAINS -> icontains(value, rhs)
      [] operator.name = STARTSWITH -> startswith(value, rhs)
      [] operator.name = ISTARTSWITH -> istartswith(value, rhs)
      [] operator.name = ENDSWITH -> endswith(value, rhs)
      [] operator.name = IENDSWITH -> iendswith(value, rhs)
      [] operator.name = IEQUAL -> iequal(value, rhs)

\* the loop of get_operator over the enum and what follows it
find_operator(as_string, default) ==
    IF IsOperatorName(as_string) THEN Return(Operator(as_string))
    ELSE IF default = MISSING THEN Raise("KeyError", as_string)
    ELSE Return(default)

\* get_operator that compares the suffix as it was written
get_operator_as_written(path, default) ==
    IF path.type # "str" THEN Raise("TypeError", "expected str")
    ELSE find_operator(Last(Split(path.s, <<"_">>)), default)

\* Operators.get_operator(path, default=default)
get_operator(path, default) ==
    IF path.type # "str" THEN Raise("TypeError", "expected str")
    ELSE find_operator(Upper(Last(Split(path.s, <<"_">>))), default)

\* \w of the pattern
WordChars == {"_"} \cup DOMAIN UpperOf \cup DOMAIN LowerOf \cup {Digits[i] : i \in 1..Len(Digits)}
IsWordChar(c) == c \in WordChars

\* the position of the underscore at which ^(\w+)_([^_]+)$ splits lhs, 0 when
\* the pattern does not match: the last underscore, with a non-empty group of
\* word characters before it and at least one character after it
MatchAtLast(lhs, k) ==
    IF k > 1 /\ k < Len(lhs) /\ \A i \in 1..(k - 1) : IsWordChar(lhs[i]) THEN k ELSE 0

MatchAt(lhs) == MatchAtLast(lhs, Greatest({i \in 1..Len(lhs) : lhs[i] = "_"}))

\* Operators[operator_name] next to the path
path_and_operator(path, operator_name) ==
    IF ~IsOperatorName(operator_name) THEN Raise("KeyError", operator_name)
    ELSE Return(<<str_to_path(PyStr(path)), Operator(operator_name)>>)

\* _split_lhs once the pattern was searched: k is where it splits lhs
split_lhs_at(lhs, k) ==
    IF k = 0 THEN Raise("ValueError", lhs)
    ELSE path_and_operator(SubSeq(lhs, 1, k - 1), Upper(SubSeq(lhs, k + 1, Len(lhs))))

\* SearchBase._split_lhs: the path and the operator of a keyword
split_lhs(lhs) == split_lhs_at(lhs, MatchAt(lhs))

\* --------------------------------------------------------------- records
s_name == <<"n", "a", "m", "e">>
s_name_type == <<"n", "a", "m", "e", "_", "t", "y", "p", "e">>
s_primary == <<"p", "r", "i", "m", "a", "r", "y">>
s_alternate == <<"a", "l", "t", "e", "r", "n", "a", "t", "e">>

\* the values of the enum NameType
NameType == {s_primary, s_alternate}

ThingNameObj(t, v) ==
    PyObj("ThingName", (s_name_type :> [type |-> "NameType", value |-> t]) @@ (s_value :> v))
YearPublishedObj(v) == PyObj("YearPublished", (s_value :> v))
\* a Thing, by the fields the model follows
ThingObj(i, d, n, y) ==
    PyObj("Thing", (s_id :> i) @@ (s_description :> d) @@ (s_name :> n) @@ (s_year_published :> y))

\* a dict of raw fields, as parsed from the feed
PyDict(fields) == [type |-> "dict", items |-> fields]

\* coerce_to_list
coerce_to_list(value) ==
    IF value.type # "list" /\ value # PyNone THEN PyList(<<value>>) ELSE value

\* not_empty
not_empty(value) ==
    IF Len(value.items) = 0 THEN Raise("ValueError", "value is empty") ELSE Return(value)

\* is_not_future, in the calendar year now: raises, or returns None
is_not_future(value, now) ==
    IF value # PyNone /\ value.i # 0 /\ value.i > now
    THEN Raise("ValueError", "is in the future")
    ELSE Return(PyNone)

\* validation of a field declared int
ValidInt(raw) == IF raw.type = "int" THEN Return(raw) ELSE Raise("ValidationError", "int_type")

\* validation of a field declared ThingName
ValidThingName(raw) ==
    IF /\ raw.type = "dict"
       /\ DOMAIN raw.items = {"name_type", "value"}
       /\ raw.items.name_type.type = "str"
       /\ raw.items.name_type.s \in NameType
       /\ raw.items.value.type = "str"
    THEN Return(ThingNameObj(raw.items.name_type.s, raw.items.value))
    ELSE Raise("ValidationError", "ThingName")

\* validation of a field declared list[ThingName]: a list, every item valid
ValidThingNames(raw) ==
    IF raw.type # "list" THEN Raise("ValidationError", "list_type")
    ELSE IF \E i \in 1..Len(raw.items) : ValidThingName(raw.items[i]).exc # "none"
    THEN Raise("ValidationError", "ThingName")
    ELSE Return(PyList([i \in 1..Len(raw.items) |-> ValidThingName(raw.items[i]).val]))

\* Thing.name: Annotated[list[ThingName], AfterValidator(not_empty)]
ValidName(raw) ==
    IF raw = MISSING THEN Raise("ValidationError", "missing")
    ELSE IF ValidThingNames(raw).exc # "none" THEN ValidThingNames(raw)
    ELSE not_empty(ValidThingNames(raw).val)

\* YearPublished(**raw): value: Annotated[int, AfterValidator(is_not_future)];
\* the field takes what the validator returns
YearPublished(raw, now) ==
    IF "value" \notin DOMAIN raw.items THEN Raise("ValidationError", "missing")
    ELSE IF ValidInt(raw.items.value).exc # "none" THEN ValidInt(raw.items.value)
    ELSE IF is_not_future(raw.items.value, now).exc # "none" THEN is_not_future(raw.items.value, now)
    ELSE Return(YearPublishedObj(is_not_future(raw.items.value, now).val))

\* Thing.year_published: YearPublished | None = None
ValidYearPublished(raw, now) ==
    IF raw \in {MISSING, PyNone} THEN Return(PyNone)
    ELSE IF raw.type = "dict" THEN YearPublished(raw, now)
    ELSE Raise("ValidationError", "model_type")

\* Thing(**data) in the calendar year now; the fields the model does not
\* follow are taken to be valid
Thing(data, now) ==
    LET failed == {f \in {"name", "year_published"} :
                      IF f = "name" THEN ValidName(data.name).exc # "none"
                      ELSE ValidYearPublished(data.year_published, now).exc # "none"}
    IN IF failed # {} THEN Raise("ValidationError", failed)
       ELSE Return(ThingObj(data.id, data.description, ValidName(data.name).val,
                            ValidYearPublished(data.year_published, now).val))

Ids == {1, 2}
Descriptions == {<<"A">>}
Years == {PyNone, YearPublishedObj(PyInt(2))}
Things ==
    {ThingObj(PyInt(i), PyStr(d), PyList(<<ThingNameObj(s_primary, PyStr(d))>>), y) :
        i \in Ids, d \in Descriptions, y \in Years}

\* ------------------------------------------------------------ SearchBase
Self == [type |-> "SearchBase"]

\* _split_kwarg that takes the first keyword whatever their number
split_kwarg_first(kwargs) ==
    IF Len(kwargs) = 0 THEN Raise("StopIteration", "") ELSE Return(kwargs[1])

\* SearchBase._split_kwarg on the keywords of a call, a sequence of
\* <<key, value>> pairs
split_kwarg(kwargs) ==
    IF Len(kwargs) > 1 THEN Raise("ValueError", "only one kwarg is allowed beyond default")
    ELSE IF Len(kwargs) = 0 THEN Raise("StopIteration", "")
    ELSE Return(kwargs[1])

\* the return of _get_compare_tuple: lhs, rhs and operator
compare_tuple(split, rhs) ==
    IF split.exc # "none" THEN split ELSE Return(<<split.val[1], rhs, split.val[2]>>)

\* _get_compare_tuple after _split_kwarg
split_pair(pair) ==
    IF pair.exc # "none" THEN pair ELSE compare_tuple(split_lhs(pair.val[1]), pair.val[2])

\* SearchBase._get_compare_tuple: <<lhs, rhs, operator>>
get_compare_tuple(kwargs) == split_pair(split_kwarg(kwargs))

\* operator.evaluate(value, rhs) on the value fetched, when it was fetched
evaluate_fetched(value, rhs, operator) ==
    IF value.exc # "none" THEN value ELSE evaluate(operator, value.val, rhs)

\* SearchBase._compare
compare(item, lhs, rhs, operator) ==
    evaluate_fetched(getattr_path(item, lhs, MISSING).out, rhs, operator)

\* the list comprehension with the item in front of what the later items gave
Collect(item, kept, rest) ==
    IF rest.exc # "none" THEN rest
    ELSE IF kept THEN Return(<<item>> \o rest.val)
    ELSE rest

RECURSIVE Select(_, _, _, _, _)
\* the list comprehension from its first item on, test being its condition
SelectHead(test, items, lhs, rhs, operator, keep) ==
    IF test.exc # "none" THEN test
    ELSE Collect(Head(items), test.val = keep, Select(Tail(items), lhs, rhs, operator, keep))

\* [item for item in items if _compare(item, lhs, rhs, operator) = keep]:
\* the list, or the first exception an element raises
Select(items, lhs, rhs, operator, keep) ==
    IF items = <<>> THEN Return(<<>>)
    ELSE SelectHead(compare(Head(items), lhs, rhs, operator), items, lhs, rhs, operator, keep)

\* an assignment that empties the list when the comprehension raised
Assign_cleared(chosen, items) ==
    IF chosen.exc # "none" THEN [out |-> chosen, root |-> <<>>]
    ELSE [out |-> Return(Self), root |-> chosen.val]

\* self.root = [...]; return self: not reached when the comprehension raised
Assign(chosen, items) ==
    IF chosen.exc # "none" THEN [out |-> chosen, root |-> items]
    ELSE [out |-> Return(Self), root |-> chosen.val]

\* filter and exclude after _get_compare_tuple
NarrowBy(tuple, items, keep) ==
    IF tuple.exc # "none" THEN [out |-> tuple, root |-> items]
    ELSE Assign(Select(items, tuple.val[1], tuple.val[2], tuple.val[3], keep), items)

\* the body shared by filter and exclude: the outcome and the list wrapped
\* afterwards
Narrow(items, kwargs, keep) == NarrowBy(get_compare_tuple(kwargs), items, keep)

\* a call whose list lost its first element
Behead(call) ==
    IF call.out.exc # "none" \/ call.root = <<>> THEN call
    ELSE [out |-> call.out, root |-> Tail(call.root)]

\* filter that also drops the first element it kept
filter_dropping(items, kwargs) == Behead(Narrow(items, kwargs, TRUE))

\* SearchBase.filter
filter(items, kwargs) == Narrow(items, kwargs, TRUE)

\* exclude that keeps the items filter keeps
exclude_matching(items, kwargs) == Narrow(items, kwargs, TRUE)

\* SearchBase.exclude
exclude(items, kwargs) == Narrow(items, kwargs, FALSE)

\* get after filter that returns the first match when several elements match
one_or_default_first(items_list, default) ==
    IF items_list.out.exc # "none" THEN items_list
    ELSE IF Len(items_list.root) = 0 THEN [out |-> Return(default), root |-> items_list.root]
    ELSE [out |-> Return(items_list.root[1]), root |-> items_list.root]

\* get after filter: items_list is what filter left in self
one_or_default(items_list, default) ==
    IF items_list.out.exc # "none" THEN items_list
    ELSE IF Len(items_list.root) # 1 THEN [out |-> Return(default), root |-> items_list.root]
    ELSE [out |-> Return(items_list.root[1]), root |-> items_list.root]

\* SearchBase.get
get(items, default, kwargs) == one_or_default(filter(items, kwargs), default)

\* append that puts the item in front
append_front(items, item) == [out |-> Return(PyNone), root |-> <<item>> \o items]

\* SearchBase.append
append(items, item) == [out |-> Return(PyNone), root |-> Append(items, item)]

\* SearchBase.__add__
add(items, other) ==
    IF other.type \in {"SearchBase", "list"}
    THEN [out |-> Return(Self), root |-> items \o other.items]
    ELSE [out |-> Raise("NotImplementedError", ""), root |-> items]

\* ------------------------------------------------- specification of paths
Segments == {s_id, s_value, s_year_published}
SegmentSeqs == UNION {[1..n -> Segments] : n \in 0..MaxDepth}
PathStrings == {Join(segs, separator) : segs \in SegmentSeqs}
PathRoots == {PyNone} \cup Years \cup {thing_ \in Things : thing_.attrs[s_id] = PyInt(1)}
Defaults == {MISSING, PyNone, PyInt(0)}
Indexes == {-2, -1, 0, 1}

Idle == [fn |-> "none"]

Pop ==
    \E index \in Indexes :
        \E call \in {pop(attrPath, index)} :
            /\ attrPath' = [attrPath EXCEPT !.parts = call.parts]
            /\ ret' = [fn |-> "pop", index |-> index, out |-> call.out]
        /\ UNCHANGED <<root, last, opRet, thing>>

Popleft ==
    /\ \E call \in {popleft(attrPath)} :
        /\ attrPath' = [attrPath EXCEPT !.parts = call.parts]
        /\ ret' = [fn |-> "popleft", out |-> call.out]
    /\ UNCHANGED <<root, last, opRet, thing>>

Render ==
    /\ ret' = [fn |-> "render", out |-> Return(PyStr(render(attrPath)))]
    /\ UNCHANGED <<attrPath, root, last, opRet, thing>>

GetattrPath ==
    \E obj \in PathRoots, path \in {attrPath, PyStr(attrPath.value)}, default \in Defaults :
        /\ \E call \in {getattr_path(obj, path, default)} :
            ret' = [fn |-> "getattr_path", obj |-> obj, path |-> path, default |-> default,
                    out |-> call.out, looked |-> call.looked]
        /\ UNCHANGED <<attrPath, root, last, opRet, thing>>

InitPath ==
    /\ attrPath \in {AttrPath(value) : value \in PathStrings}
    /\ ret = Idle
    /\ root = <<>>
    /\ last = Idle
    /\ opRet = Idle
    /\ thing = Idle

NextPath == Pop \/ Popleft \/ Render \/ GetattrPath

SpecPath == InitPath /\ [][NextPath]_vars

\* ------------------------------------------------------ claims on paths
\* the names a call of getattr_path walks
WalkedNames(path) ==
    IF path = PyStr(<<>>) THEN <<>>
    ELSE IF path.type = "AttrPath" THEN path.parts ELSE Split(path.s, separator)

RECURSIVE Fetched(_, _, _)
\* the value reached from obj by the first k names, MISSING when a name on
\* the way is absent
Fetched(obj, names, k) ==
    IF k = 0 THEN obj
    ELSE LET before == Fetched(obj, names, k - 1)
         IN IF before # MISSING /\ HasAttr(before, names[k])
            THEN GetAttr(before, names[k])
            ELSE MISSING

\* the current value before the name k + 1 is fetched is null, and the walk
\* got there over values that were not null
NullBefore(obj, names, k) ==
    /\ Fetched(obj, names, k) = PyNone
    /\ \A j \in 0..(k - 1) : Fetched(obj, names, j) \notin {PyNone, MISSING}

\* the name k is absent on the current value, which is not null
AbsentAt(obj, names, k) ==
    /\ \A j \in 0..(k - 1) : Fetched(obj, names, j) \notin {PyNone, MISSING}
    /\ ~HasAttr(Fetched(obj, names, k - 1), names[k])

\* C6: getattr_path short-circuits on null: when the current value is null
\* at any point of the walk, the root included, the call returns null there,
\* fetches no later name, raises nothing and does not return the default.
C6_NullShortCircuits ==
    ret.fn = "getattr_path" =>
        \A k \in 0..(Len(WalkedNames(ret.path)) - 1) :
            NullBefore(ret.obj, WalkedNames(ret.path), k) =>
                ret.out = Return(PyNone) /\ Len(ret.looked) = k

\* C7: a name absent on a current value that is not null: without a default
\* the call raises an AttributeError naming the full path and the type of
\* the root object; with a default it returns the default at once and
\* fetches no later name.
C7_AbsentAttribute ==
    ret.fn = "getattr_path" =>
        \A k \in 1..Len(WalkedNames(ret.path)) :
            AbsentAt(ret.obj, WalkedNames(ret.path), k) =>
                /\ Len(ret.looked) = k
                /\ IF ret.default = MISSING
                   THEN /\ ret.out.exc = "AttributeError"
                        /\ ret.out.msg.type = ret.obj.type
                        /\ ret.out.msg.path = Join(WalkedNames(ret.path), separator)
                   ELSE ret.out = Return(ret.default)

\* a call without default that failed on an object below the root, whose
\* type is not the root's
C7_Witness ==
    /\ ret.fn = "getattr_path"
    /\ ret.default = MISSING
    /\ Len(WalkedNames(ret.path)) > 2
    /\ AbsentAt(ret.obj, WalkedNames(ret.path), 2)
    /\ Fetched(ret.obj, WalkedNames(ret.path), 1).type # ret.obj.type
    /\ ret.out.exc = "AttributeError"

\* C8: popleft returns the first segment and leaves the others; pop with its
\* default index returns the last segment and leaves the others; the
\* segments left keep their order, so render gives the path without the
\* segment removed.
C8_PopEnds ==
    [][/\ (ret'.fn = "popleft" /\ Len(attrPath.parts) >= 1) =>
            /\ ret'.out = Return(PyStr(Head(attrPath.parts)))
            /\ attrPath'.parts = Tail(attrPath.parts)
       /\ (ret'.fn = "pop" /\ ret'.index = -1 /\ Len(attrPath.parts) >= 1) =>
            /\ ret'.out = Return(PyStr(attrPath.parts[Len(attrPath.parts)]))
            /\ attrPath'.parts = SubSeq(attrPath.parts, 1, Len(attrPath.parts) - 1)
            /\ render(attrPath') = Join(SubSeq(attrPath.parts, 1, Len(attrPath.parts) - 1), separator)
      ]_vars

\* --------------------------------------------- specification of operators
RECURSIVE CaseVariants(_)
\* a token in every casing
CaseVariants(token) ==
    IF token = <<>> THEN {<<>>}
    ELSE {<<c>> \o rest : c \in {LowerChar(Head(token)), UpperChar(Head(token))},
                          rest \in CaseVariants(Tail(token))}

s_iexact == <<"i", "e", "x", "a", "c", "t">>
Tokens == {EQ, GT, IN_, IEQUAL, s_iexact, <<"e", ".", "q">>, <<>>}
Prefixes == {<<>>, s_id, s_year_published \o separator \o s_value, <<"i", ".", "d">>}
Suffixes == UNION {CaseVariants(token) : token \in Tokens}
\* a key is a bare token, or a prefix, an underscore and a token
Keys == Suffixes \cup {prefix \o <<"_">> \o suffix : prefix \in Prefixes, suffix \in Suffixes}
OperatorDefaults == {MISSING, Operator(EQ)}
Operands == {PyNone, PyInt(1), PyInt(2), PyStr(<<"a">>), PyStr(<<"A", "b">>),
             PyList(<<PyInt(1), PyStr(<<"a">>)>>)}
OperandValues == Operands \cup Years

\* the arguments of a lookup and the operands of an evaluation
OperatorArgs ==
    {[path |-> path, default |-> default] :
        path \in {PyStr(key) : key \in Keys} \cup {PyInt(1)}, default \in OperatorDefaults}
    \cup {[value |-> value, rhs |-> rhs] : value \in OperandValues, rhs \in Operands}

GetOperator ==
    /\ "path" \in DOMAIN opRet.args
    /\ opRet' = [fn |-> "get_operator", args |-> opRet.args,
                 out |-> get_operator(opRet.args.path, opRet.args.default)]
    /\ UNCHANGED <<attrPath, ret, root, last, thing>>

SplitLhs ==
    /\ "path" \in DOMAIN opRet.args
    /\ opRet.args.path.type = "str"
    /\ opRet' = [fn |-> "_split_lhs", args |-> opRet.args, out |-> split_lhs(opRet.args.path.s)]
    /\ UNCHANGED <<attrPath, ret, root, last, thing>>

Evaluate ==
    \E i \in 1..Len(Operators) :
        /\ "value" \in DOMAIN opRet.args
        /\ opRet' = [fn |-> "evaluate", args |-> opRet.args, operator |-> Operator(Operators[i]),
                     out |-> evaluate(Operator(Operators[i]), opRet.args.value, opRet.args.rhs)]
        /\ UNCHANGED <<attrPath, ret, root, last, thing>>

InitOperators ==
    /\ attrPath = AttrPath(<<>>)
    /\ ret = Idle
    /\ root = <<>>
    /\ last = Idle
    /\ opRet \in {[fn |-> "none", args |-> args] : args \in OperatorArgs}
    /\ thing = Idle

NextOperators == GetOperator \/ SplitLhs \/ Evaluate

SpecOperators == InitOperators /\ [][NextOperators]_vars

\* the same key with its suffix token in another casing
Recased(key) ==
    LET pieces == Split(key, <<"_">>)
        token == pieces[Len(pieces)]
        front == SubSeq(key, 1, Len(key) - Len(token))
    IN {front \o variant : variant \in CaseVariants(token)}

\* two outcomes are the same operator, or the same failure (a ValueError
\* quotes the key as it was written)
SameOutcome(a, b) ==
    /\ a.exc = b.exc
    /\ a.exc = "none" => a.val = b.val
    /\ a.exc = "KeyError" => a.msg = b.msg

\* C9: operator suffix resolution does not depend on the casing of the
\* suffix token, in Operators.get_operator and in the decoding of a
\* predicate key: every recasing of the token resolves to the same operator
\* or fails in the same way.
C9_CaseInsensitive ==
    /\ (opRet.fn = "get_operator" /\ opRet.args.path.type = "str") =>
            \A key \in Recased(opRet.args.path.s) :
                SameOutcome(get_operator(PyStr(key), opRet.args.default), opRet.out)
    /\ opRet.fn = "_split_lhs" =>
            \A key \in Recased(opRet.args.path.s) : SameOutcome(split_lhs(key), opRet.out)

\* a key written in mixed case was decoded to the operator IEQUAL
C9_Witness ==
    /\ opRet.fn = "_split_lhs"
    /\ opRet.out.exc = "none"
    /\ opRet.out.val[2] = Operator(IEQUAL)
    /\ opRet.args.path.s # Lower(opRet.args.path.s)
    /\ opRet.args.path.s # Upper(opRet.args.path.s)

\* -------------------------------------------- specification of collections
Key(path, token) == path \o <<"_">> \o token

s_year_value == s_year_published \o separator \o s_value
s_year_id == s_year_published \o separator \o s_id

PredicateKeys ==
    {Key(s_id, Lower(EQ)), Key(s_id, <<"G", "t">>), Key(s_description, Lower(IEQUAL)),
     Key(s_description, s_iexact), Key(s_year_value, Lower(LT)), Key(s_year_id, Lower(NE)),
     s_id}
PredicateValues == {PyInt(1), PyStr(<<"a">>)}
Predicates == {<<key, value>> : key \in PredicateKeys, value \in PredicateValues}

\* the pairs a call with several keywords is made of
SeveralPairs ==
    {<<Key(s_id, Lower(EQ)), PyInt(1)>>, <<Key(s_description, Lower(IEQUAL)), PyStr(<<"a">>)>>,
     <<Key(s_year_value, Lower(LT)), PyInt(1)>>}

\* the keywords of a call: none, one, or several with distinct keys
Kwargs ==
    {<<>>} \cup {<<pair>> : pair \in Predicates}
    \cup UNION {{kw \in [1..n -> SeveralPairs] : \A i, j \in 1..n : kw[i] = kw[j] => i = j} :
                n \in 2..MaxKwargs}

GetDefaults == {PyNone, PyInt(0)}

Lists(n) == UNION {[1..m -> Things] : m \in 0..n}
Others ==
    {[type |-> "SearchBase", items |-> items] : items \in Lists(MaxOther)}
    \cup {PyList(items) : items \in Lists(MaxOther)} \cup {PyInt(1)}

\* the call before was a filter with the same keywords that did not raise
Repeats(kwargs) == last.fn = "filter" /\ last.out.exc = "none" /\ last.kwargs = kwargs

Filter ==
    \E kwargs \in Kwargs :
        \E call \in {filter(root, kwargs)} :
            /\ root' = call.root
            /\ last' = [fn |-> "filter", kwargs |-> kwargs, before |-> root, out |-> call.out,
                        repeated |-> Repeats(kwargs),
                        since |-> IF Repeats(kwargs) THEN last.before ELSE root]
        /\ UNCHANGED <<attrPath, ret, opRet, thing>>

Exclude ==
    \E kwargs \in Kwargs :
        \E call \in {exclude(root, kwargs)} :
            /\ root' = call.root
            /\ last' = [fn |-> "exclude", kwargs |-> kwargs, before |-> root, out |-> call.out,
                        chained |-> /\ last.fn = "filter"
                                    /\ last.out.exc = "none"
                                    /\ last.kwargs = kwargs]
        /\ UNCHANGED <<attrPath, ret, opRet, thing>>

Get ==
    \E kwargs \in Kwargs, default \in GetDefaults :
        \E call \in {get(root, default, kwargs)} :
            /\ root' = call.root
            /\ last' = [fn |-> "get", kwargs |-> kwargs, default |-> default, before |-> root,
                        out |-> call.out]
        /\ UNCHANGED <<attrPath, ret, opRet, thing>>

AppendItem ==
    \E item \in Things :
        /\ Len(root) < MaxLen
        /\ \E call \in {append(root, item)} :
            /\ root' = call.root
            /\ last' = [fn |-> "append", item |-> item, before |-> root, out |-> call.out]
        /\ UNCHANGED <<attrPath, ret, opRet, thing>>

Add ==
    \E other \in Others :
        \E call \in {add(root, other)} :
            /\ Len(call.root) <= MaxLen
            /\ root' = call.root
            /\ last' = [fn |-> "__add__", other |-> other, before |-> root, out |-> call.out]
        /\ UNCHANGED <<attrPath, ret, opRet, thing>>

Init ==
    /\ attrPath = AttrPath(<<>>)
    /\ ret = Idle
    /\ root = <<>>
    /\ last = Idle
    /\ opRet = Idle
    /\ thing = Idle

Next == Filter \/ Exclude \/ Get \/ AppendItem \/ Add

Spec == Init /\ [][Next]_vars

\* ------------------------------------------------ claims on collections
\* the keywords are one well-formed predicate that evaluates on every item
EvaluatesOn(items, kwargs) ==
    /\ get_compare_tuple(kwargs).exc = "none"
    /\ \A i \in 1..Len(items) :
            compare(items[i], get_compare_tuple(kwargs).val[1], get_compare_tuple(kwargs).val[2],
                    get_compare_tuple(kwargs).val[3]).exc = "none"

\* the positions of the items that satisfy the predicate
Matches(items, kwargs) ==
    {i \in 1..Len(items) :
        compare(items[i], get_compare_tuple(kwargs).val[1], get_compare_tuple(kwargs).val[2],
                get_compare_tuple(kwargs).val[3]).val}

RECURSIVE IsSubseq(_, _)
\* s is t with some elements left out, the others in the order of t
IsSubseq(s, t) ==
    IF s = <<>> THEN TRUE
    ELSE IF t = <<>> THEN FALSE
    ELSE IF Head(s) = Head(t) THEN IsSubseq(Tail(s), Tail(t))
    ELSE IsSubseq(s, Tail(t))

C2_GetLeavesCollection == last.fn = "get" => root = last.before

\* C3: filter and then exclude with the identical predicate, which evaluates
\* without error, leave the collection empty.
C3_FilterThenExclude ==
    (last.fn = "exclude" /\ last.chained) => (last.out = Return(Self) /\ root = <<>>)

\* exclude ran right after filter with the same predicate, on what filter kept
C3_Witness ==
    /\ last.fn = "exclude"
    /\ last.chained
    /\ Len(last.before) = MaxLen
    /\ root = <<>>

\* C4: the collection keeps the order of its elements and never changes an
\* element: filter and exclude leave a subsequence of the elements held
\* before, append and merge add the operands at the end in their order.
C4_OrderPreserved ==
    /\ last.fn \in {"filter", "exclude"} => IsSubseq(root, last.before)
    /\ last.fn = "append" => root = last.before \o <<last.item>>
    /\ (last.fn = "__add__" /\ last.out.exc = "none") => root = last.before \o last.other.items

\* filter or exclude kept two different elements out of those held before
C4_Witness ==
    /\ last.fn \in {"filter", "exclude"}
    /\ last.out.exc = "none"
    /\ Len(root) >= 2
    /\ root[1] # root[2]

\* C5: a call of filter or exclude with more than one keyword predicate
\* fails with a ValueError and does not filter.
C5_OnePredicate ==
    (last.fn \in {"filter", "exclude"} /\ Len(last.kwargs) > 1) =>
        (last.out.exc = "ValueError" /\ root = last.before)

\* filter was called with two predicates on a collection the first of them
\* would have reduced
C5_Witness ==
    /\ last.fn = "filter"
    /\ Len(last.kwargs) = 2
    /\ last.out.exc = "ValueError"
    /\ filter(last.before, <<last.kwargs[1]>>).out.exc = "none"
    /\ filter(last.before, <<last.kwargs[1]>>).root # last.before

\* C12: filter is idempotent: a filter directly after a filter with the same
\* predicate, which evaluated without error, returns normally and leaves the
\* collection with the elements, in the order, the first filter left.
C12_FilterIdempotent ==
    (last.fn = "filter" /\ last.repeated) => (last.out = Return(Self) /\ root = last.before)

\* the first of the two filters removed an element and kept another
C12_Witness ==
    /\ last.fn = "filter"
    /\ last.repeated
    /\ root # <<>>
    /\ Len(root) < Len(last.since)

\* C13: a filter or exclude that raises, for several predicates, a malformed
\* key, an unknown operator suffix or a path missing on an element, leaves
\* the wrapped list as it was before the call.
C13_FailureLeavesList ==
    (last.fn \in {"filter", "exclude"} /\ last.out.exc # "none") => root = last.before

\* the path was missing on the second element, after the first was evaluated
C13_Witness ==
    /\ last.fn \in {"filter", "exclude"}
    /\ last.out.exc = "AttributeError"
    /\ Len(last.before) = 2
    /\ get_compare_tuple(last.kwargs).exc = "none"
    /\ EvaluatesOn(<<last.before[1]>>, last.kwargs)
    /\ root = last.before

\* ------------------------------------------------ specification of records
RawNames ==
    {PyDict([name_type |-> PyStr(t), value |-> PyStr(<<"A">>)]) :
        t \in NameType \cup {<<"o", "t", "h", "e", "r">>}}
RawNameLists == UNION {[1..n -> RawNames] : n \in 0..MaxNames}
RawNameFields == {MISSING} \cup RawNames \cup {PyList(names) : names \in RawNameLists}
RawYears == {PyNone} \cup {PyInt(y) : y \in 0..3}
RawYearFields == {MISSING, PyNone, PyDict(<<>>)} \cup {PyDict([value |-> y]) : y \in RawYears}
CurrentYears == {1, 2}

ThingData ==
    {[id |-> PyInt(1), description |-> PyStr(<<"A">>), name |-> n, year_published |-> y] :
        n \in RawNameFields, y \in RawYearFields}

NewThing ==
    /\ thing.fn = "none"
    /\ thing' = [fn |-> "Thing", data |-> thing.data, now |-> thing.now,
                 out |-> Thing(thing.data, thing.now)]
    /\ UNCHANGED <<attrPath, ret, root, last, opRet>>

NewYearPublished ==
    /\ thing.fn = "none"
    /\ thing.data.year_published.type = "dict"
    /\ thing' = [fn |-> "YearPublished", data |-> thing.data.year_published, now |-> thing.now,
                 out |-> YearPublished(thing.data.year_published, thing.now)]
    /\ UNCHANGED <<attrPath, ret, root, last, opRet>>

InitThing ==
    /\ attrPath = AttrPath(<<>>)
    /\ ret = Idle
    /\ root = <<>>
    /\ last = Idle
    /\ opRet = Idle
    /\ thing \in {[fn |-> "none", data |-> data, now |-> now] :
                    data \in ThingData, now \in CurrentYears}

NextThing == NewThing \/ NewYearPublished

SpecThing == InitThing /\ [][NextThing]_vars

\* the raw names are all valid
ValidRawNames(names) == \A i \in 1..Len(names) : ValidThingName(names[i]).exc = "none"

\* C10: the mandatory name collection of a catalog item: an empty list fails
\* construction; a single bare object is accepted and becomes a collection
\* of one element; a non-empty list is accepted with its elements in order.
C10_NameNotEmpty ==
    (thing.fn = "Thing" /\ ValidYearPublished(thing.data.year_published, thing.now).exc = "none") =>
        /\ thing.data.name = PyList(<<>>) => thing.out.exc # "none"
        /\ (thing.data.name.type = "dict" /\ ValidThingName(thing.data.name).exc = "none") =>
                /\ thing.out.exc = "none"
                /\ thing.out.val.attrs[s_name] = PyList(<<ValidThingName(thing.data.name).val>>)
        /\ (/\ thing.data.name.type = "list"
            /\ Len(thing.data.name.items) > 0
            /\ ValidRawNames(thing.data.name.items)) =>
                /\ thing.out.exc = "none"
                /\ thing.out.val.attrs[s_name] =
                        PyList([i \in 1..Len(thing.data.name.items) |->
                                    ValidThingName(thing.data.name.items[i]).val])

\* C11: the publication-year wrapper in the calendar year now: a value greater
\* than now fails construction, a value up to now succeeds, and a null value
\* succeeds.
C11_FutureYear ==
    (thing.fn = "YearPublished" /\ "value" \in DOMAIN thing.data.items) =>
        IF thing.data.items.value = PyNone THEN thing.out.exc = "none"
        ELSE IF thing.data.items.value.i > thing.now THEN thing.out.exc # "none"
        ELSE thing.out.exc = "none"

====
